---- MODULE Spec2Model ----
(***************************************************************************)
(* Model of imagepartitioner.py: the ImagePartitioner class, its box       *)
(* generator get_boxes and the driver get_partitions.                      *)
(*                                                                         *)
(* Python tuples are 0-indexed, TLA+ tuples 1-indexed: size[0] (width) is  *)
(* size[1] here and size[1] (height) is size[2].  None is the empty tuple. *)
(* Python generators run their body when the consumer pulls; every action  *)
(* below is one stretch of the body between two suspension points or loop  *)
(* tests.  A cropped tile is identified with the box it was cropped at.    *)
(***************************************************************************)
EXTENDS Integers, Sequences, FiniteSets

\* Bounds of the explored inputs.
MaxImage == 4
MaxTile == 3
MaxOverlap == 2

None == <<>>

ImageSizes == (0..MaxImage) \X (0..MaxImage)
TileSizes == (0..MaxTile) \X (0..MaxTile)
OverlapSizes == (0..MaxOverlap) \X (0..MaxOverlap)
OverhangValues == {"None", "False", "True"}

VARIABLES
    partSize,      \* self.partSize
    overlapSize,   \* self.overlapSize
    log,           \* TRUE iff a logger is configured (self.log is truthy)
    source,        \* get_partitions argument: "Image" (decoded) or "locator"
    srcSize,       \* size of the image source is or decodes to; None if undecodable
    overhang,      \* get_partitions / get_boxes argument
    im,            \* get_partitions local: size of the resolved image, or None
    pc,            \* position in get_partitions / get_boxes
    error,         \* exception that left get_partitions, "none" otherwise
    widthOffset, heightOffset,
    left, upper, right, lower, row, col,
    boxes,         \* records yielded so far (box, row, col)
    trims          \* per yielded box: which trim branches fired (width, height)

vars == <<partSize, overlapSize, log, source, srcSize, overhang, im, pc, error,
          widthOffset, heightOffset, left, upper, right, lower, row, col,
          boxes, trims>>

config == <<partSize, overlapSize, log>>
locals == <<widthOffset, heightOffset, left, upper, right, lower, row, col>>

\* Python truthiness of the overhang argument.
Truthy(v) == v = "True"

\* __init__: a missing overlap becomes (0, 0).
InitOverlap(ov) == IF ov = None THEN <<0, 0>> ELSE ov

\* Outcome of validate_box_size_against_image_size.
validate_box_size_against_image_size(pSize, imgSize) ==
    IF pSize[1] > imgSize[1] THEN "ValueError"
    ELSE IF pSize[2] > imgSize[1] THEN "ValueError"
    ELSE "ok"

\* Variant: the width test written with > instead of >=.
validate_overlap_strict(oSize, boxSize) ==
    IF oSize[1] > boxSize[1] THEN "ValueError"
    ELSE IF oSize[2] >= boxSize[2] THEN "ValueError"
    ELSE "ok"

\* Outcome of validate_overlap_size_against_box_size.
validate_overlap_size_against_box_size(oSize, boxSize) ==
    IF oSize[1] >= boxSize[1] THEN "ValueError"
    ELSE IF oSize[2] >= boxSize[2] THEN "ValueError"
    ELSE "ok"

\* Variant: the overhang test placed after the two validations.
GetBoxesPrologueValidateFirst(ovh, pSize, oSize, imgSize, boxSize) ==
    IF validate_box_size_against_image_size(pSize, imgSize) # "ok"
    THEN validate_box_size_against_image_size(pSize, imgSize)
    ELSE IF validate_overlap_size_against_box_size(oSize, boxSize) # "ok"
         THEN validate_overlap_size_against_box_size(oSize, boxSize)
    ELSE IF Truthy(ovh) THEN "NotImplementedError"
    ELSE "ok"

\* What the prologue of get_boxes does before the first box is set up.
GetBoxesPrologue(ovh, pSize, oSize, imgSize, boxSize) ==
    IF Truthy(ovh) THEN "NotImplementedError"
    ELSE IF validate_box_size_against_image_size(pSize, imgSize) # "ok"
         THEN validate_box_size_against_image_size(pSize, imgSize)
    ELSE validate_overlap_size_against_box_size(oSize, boxSize)

\* Variant: the overlap added to the step instead of subtracted.
OffsetsPlus(boxSize, overlap) == <<boxSize[1] + overlap[1], boxSize[2] + overlap[2]>>

\* The box translation offsets.
Offsets(boxSize, overlap) == <<boxSize[1] - overlap[1], boxSize[2] - overlap[2]>>

\* Variant: no trimming.
TrimNot(edge, limit) == edge

\* "Trim the box if it exceeds the image size."
Trim(edge, limit) == IF edge > limit THEN limit ELSE edge

\* The four sanity assertions before the yield.
SanityChecks(l, u, r, lo) == 0 <= l /\ 0 <= u /\ l < r /\ u < lo

Init ==
    /\ partSize \in TileSizes
    /\ \E ov \in OverlapSizes \cup {None} : overlapSize = InitOverlap(ov)
    /\ log \in BOOLEAN
    /\ source = "Image"
    /\ srcSize = None
    /\ overhang = "None"
    /\ im = None
    /\ pc = "idle"
    /\ error = "none"
    /\ widthOffset = 0 /\ heightOffset = 0
    /\ left = 0 /\ upper = 0 /\ right = 0 /\ lower = 0
    /\ row = 0 /\ col = 0
    /\ boxes = <<>>
    /\ trims = <<>>

\* A caller invokes get_partitions(source, overhang) and starts to iterate.
Call ==
    /\ pc \in {"idle", "done"}
    /\ \E s \in {"Image", "locator"}, sz \in ImageSizes \cup {None}, o \in OverhangValues :
          /\ s = "Image" => sz # None
          /\ source' = s
          /\ srcSize' = sz
          /\ overhang' = o
    /\ im' = None
    /\ pc' = "open"
    /\ error' = "none"
    /\ widthOffset' = 0 /\ heightOffset' = 0
    /\ left' = 0 /\ upper' = 0 /\ right' = 0 /\ lower' = 0
    /\ row' = 0 /\ col' = 0
    /\ boxes' = <<>>
    /\ trims' = <<>>
    /\ UNCHANGED config

\* get_partitions resolves the image.  A failed open is logged with the
\* undefined name `filename` when a logger is configured; without an image
\* the generator stops.
Open ==
    /\ pc = "open"
    /\ IF source = "Image" \/ srcSize # None
       THEN /\ im' = srcSize
            /\ pc' = "get_boxes"
            /\ error' = error
       ELSE /\ im' = None
            /\ IF log
               THEN pc' = "raised" /\ error' = "NameError"
               ELSE pc' = "done" /\ error' = error
    /\ UNCHANGED <<config, source, srcSize, overhang, locals, boxes, trims>>

\* Prologue of get_boxes(im.size, self.partSize, self.overlapSize, overhang).
Enter ==
    /\ pc = "get_boxes"
    /\ LET outcome == GetBoxesPrologue(overhang, partSize, overlapSize, im, partSize)
           off == Offsets(partSize, overlapSize)
       IN IF outcome # "ok"
          THEN /\ pc' = "raised"
               /\ error' = outcome
               /\ UNCHANGED locals
          ELSE /\ pc' = "outer"
               /\ error' = error
               /\ row' = 0 /\ col' = 0
               /\ left' = 0 /\ upper' = 0
               /\ right' = partSize[1] /\ lower' = partSize[2]
               /\ widthOffset' = off[1]
               /\ heightOffset' = off[2]
    /\ UNCHANGED <<config, source, srcSize, overhang, im, boxes, trims>>

\* while upper < imageHeight
Outer ==
    /\ pc = "outer"
    /\ pc' = IF upper < im[2] THEN "inner" ELSE "summary"
    /\ UNCHANGED <<config, source, srcSize, overhang, im, error, locals, boxes, trims>>

\* One iteration of the inner loop: trim, check, yield, crop, advance.
Emit ==
    /\ pc = "inner"
    /\ left < im[1]
    /\ LET r == Trim(right, im[1])
           lo == Trim(lower, im[2])
       IN IF SanityChecks(left, upper, r, lo)
          THEN /\ boxes' = Append(boxes, [box |-> <<left, upper, r, lo>>, row |-> row, col |-> col])
               /\ trims' = Append(trims, <<right > im[1], lower > im[2]>>)
               /\ left' = left + widthOffset
               /\ right' = r + widthOffset
               /\ lower' = lo
               /\ col' = col + 1
               /\ pc' = pc
               /\ error' = error
          ELSE /\ pc' = "raised"
               /\ error' = "AssertionError"
               /\ right' = r
               /\ lower' = lo
               /\ UNCHANGED <<left, col, boxes, trims>>
    /\ UNCHANGED <<config, source, srcSize, overhang, im, widthOffset, heightOffset, upper, row>>

\* Variant: the column index is not reset at the end of a row.
RowEndKeepCol ==
    /\ pc = "inner"
    /\ ~(left < im[1])
    /\ left' = 0 /\ right' = partSize[1]
    /\ row' = row + 1 /\ col' = col
    /\ upper' = upper + heightOffset
    /\ lower' = lower + heightOffset
    /\ pc' = "outer"
    /\ UNCHANGED <<config, source, srcSize, overhang, im, error, widthOffset, heightOffset, boxes, trims>>

\* Variant: right is not restored to the tile width at the end of a row.
RowEndKeepRight ==
    /\ pc = "inner"
    /\ ~(left < im[1])
    /\ left' = 0 /\ right' = right
    /\ row' = row + 1 /\ col' = 0
    /\ upper' = upper + heightOffset
    /\ lower' = lower + heightOffset
    /\ pc' = "outer"
    /\ UNCHANGED <<config, source, srcSize, overhang, im, error, widthOffset, heightOffset, boxes, trims>>

\* The inner loop ends: back to the first column of the next row.
RowEnd ==
    /\ pc = "inner"
    /\ ~(left < im[1])
    /\ left' = 0 /\ right' = partSize[1]
    /\ row' = row + 1 /\ col' = 0
    /\ upper' = upper + heightOffset
    /\ lower' = lower + heightOffset
    /\ pc' = "outer"
    /\ UNCHANGED <<config, source, srcSize, overhang, im, error, widthOffset, heightOffset, boxes, trims>>

\* After the loop get_partitions logs i+1; i is unbound if nothing was yielded.
Summary ==
    /\ pc = "summary"
    /\ IF log /\ Len(boxes) = 0
       THEN pc' = "raised" /\ error' = "NameError"
       ELSE pc' = "done" /\ error' = error
    /\ UNCHANGED <<config, source, srcSize, overhang, im, locals, boxes, trims>>

Next == Call \/ Open \/ Enter \/ Outer \/ Emit \/ RowEnd \/ Summary

Spec == Init /\ [][Next]_vars

\* The consumer's for loop keeps pulling until the generator ends.
FairSpec == Spec /\ WF_vars(Open \/ Enter \/ Outer \/ Emit \/ RowEnd \/ Summary)

TypeOK ==
    /\ partSize \in TileSizes
    /\ overlapSize \in OverlapSizes
    /\ log \in BOOLEAN
    /\ pc \in {"idle", "open", "get_boxes", "outer", "inner", "summary", "done", "raised"}
    /\ error \in {"none", "ValueError", "NotImplementedError", "NameError", "AssertionError"}

(***************************************************************************)
(* Vocabulary of the properties.                                           *)
(***************************************************************************)

\* The prologue of get_boxes has run on a resolved image.
GetBoxesRan == im # None /\ pc \notin {"idle", "open", "get_boxes"}

\* get_boxes was exhausted: both loops ran to their end.
GetBoxesCompleted ==
    /\ im # None
    /\ \/ pc \in {"summary", "done"}
       \/ pc = "raised" /\ error = "NameError"

\* get_boxes raised.
GetBoxesFailed == pc = "raised" /\ error \in {"ValueError", "NotImplementedError", "AssertionError"}

\* The code's own validation accepted the call.
Accepted == GetBoxesRan /\ GetBoxesPrologue(overhang, partSize, overlapSize, im, partSize) = "ok"

Min(a, b) == IF a < b THEN a ELSE b

Ceil(a, b) == (a + b - 1) \div b

InBox(x, y, b) == b[1] <= x /\ x < b[3] /\ b[2] <= y /\ y < b[4]

\* Row-major enumeration of the grid {0..R-1} x {0..C-1}.
RowMajor(R, C) == [k \in 1..(R * C) |-> <<(k - 1) \div C, (k - 1) % C>>]

Indices == [k \in 1..Len(boxes) |-> <<boxes[k].row, boxes[k].col>>]

IsPrefix(s, t) == Len(s) <= Len(t) /\ \A k \in 1..Len(s) : s[k] = t[k]

\* Reference generator: nominal right/lower are never overwritten, the
\* emitted box is clipped on a copy.
RECURSIVE ReferenceRow(_, _, _, _)
ReferenceRow(g, l, nominalRight, c) ==
    IF l < g.W
    THEN <<[box |-> <<l, g.upper, Min(nominalRight, g.W), Min(g.nominalLower, g.H)>>,
            row |-> g.row, col |-> c]>>
         \o ReferenceRow(g, l + g.wOff, nominalRight + g.wOff, c + 1)
    ELSE <<>>

RECURSIVE ReferenceRows(_)
ReferenceRows(g) ==
    IF g.upper < g.H
    THEN ReferenceRow(g, 0, g.w, 0)
         \o ReferenceRows([g EXCEPT !.upper = @ + g.hOff, !.nominalLower = @ + g.hOff, !.row = @ + 1])
    ELSE <<>>

Reference(imgSize, boxSize, overlap) ==
    ReferenceRows([W |-> imgSize[1], H |-> imgSize[2], w |-> boxSize[1],
                   wOff |-> boxSize[1] - overlap[1], hOff |-> boxSize[2] - overlap[2],
                   upper |-> 0, nominalLower |-> boxSize[2], row |-> 0])

(***************************************************************************)
(* Properties.                                                             *)
(***************************************************************************)

\* C1: with overhang false, a tile no larger than the image and an overlap
\* strictly smaller than the tile, get_boxes raises nothing, and once it is
\* exhausted every pixel of the image lies in some emitted box and every
\* emitted box lies inside the image rectangle.
C1_ExactCover ==
    (/\ GetBoxesRan
     /\ ~Truthy(overhang)
     /\ partSize[1] <= im[1] /\ partSize[2] <= im[2]
     /\ overlapSize[1] < partSize[1] /\ overlapSize[2] < partSize[2])
    => /\ ~GetBoxesFailed
       /\ \A k \in 1..Len(boxes) :
             /\ 0 <= boxes[k].box[1] /\ boxes[k].box[3] <= im[1]
             /\ 0 <= boxes[k].box[2] /\ boxes[k].box[4] <= im[2]
       /\ GetBoxesCompleted =>
             \A x \in 0..(im[1] - 1), y \in 0..(im[2] - 1) :
                 \E k \in 1..Len(boxes) : InBox(x, y, boxes[k].box)

\* C2: every emitted box satisfies 0 <= left < right <= imageWidth and
\* 0 <= upper < lower <= imageHeight, and no sanity assertion fails.
C2_BoxesInsideImage ==
    /\ error # "AssertionError"
    /\ \A k \in 1..Len(boxes) :
          LET b == boxes[k].box
          IN /\ 0 <= b[1] /\ b[1] < b[3] /\ b[3] <= im[1]
             /\ 0 <= b[2] /\ b[2] < b[4] /\ b[4] <= im[2]

\* C2 witness: the generator was exhausted after trimming a box in width
\* and a box in height, and its last box ends at the image's corner.
C2_Witness ==
    /\ pc = "summary"
    /\ \E k \in 1..Len(boxes) : trims[k][1]
    /\ \E k \in 1..Len(boxes) : trims[k][2]
    /\ boxes[Len(boxes)].box[3] = im[1] /\ boxes[Len(boxes)].box[4] = im[2]

\* C3: with overhang false, a tile wider than the image or higher than the
\* image makes get_boxes fail with ValueError before any box is emitted.
C3_TileExceedsImage ==
    (/\ GetBoxesRan
     /\ ~Truthy(overhang)
     /\ (partSize[1] > im[1] \/ partSize[2] > im[2]))
    => error = "ValueError" /\ boxes = <<>>

\* C4: with overhang false, an overlap not strictly smaller than the tile
\* makes get_boxes fail with ValueError before any box is emitted, and both
\* offsets are strictly positive whenever the loops are entered.
C4_OverlapNotSmaller ==
    /\ (/\ GetBoxesRan
        /\ ~Truthy(overhang)
        /\ (overlapSize[1] >= partSize[1] \/ overlapSize[2] >= partSize[2]))
       => error = "ValueError" /\ boxes = <<>>
    /\ pc \in {"outer", "inner"} => widthOffset > 0 /\ heightOffset > 0

\* C4 witness: the tile fits the image and only the overlap check rejects.
C4_Witness ==
    /\ pc = "raised" /\ error = "ValueError"
    /\ ~Truthy(overhang)
    /\ validate_box_size_against_image_size(partSize, im) = "ok"
    /\ overlapSize[1] = partSize[1]
    /\ overlapSize[2] < partSize[2]

\* C5: a truthy overhang makes get_boxes fail with NotImplementedError and
\* emit nothing, whatever the sizes; boxes exist only without overhang.
C5_OverhangUnsupported ==
    /\ (GetBoxesRan /\ Truthy(overhang))
       => error = "NotImplementedError" /\ boxes = <<>>
    /\ boxes # <<>> => ~Truthy(overhang)

\* C5 witness: overhang requested with sizes the validation would reject.
C5_Witness ==
    /\ pc = "raised" /\ error = "NotImplementedError"
    /\ validate_box_size_against_image_size(partSize, im) = "ValueError"

\* C6 (state part): for an accepted call the emitted (row, col) indices are
\* always a prefix of the row-major enumeration of the R x C grid, with
\* C = ceil(imageWidth / widthOffset) and R = ceil(imageHeight / heightOffset),
\* and they are the whole enumeration once get_boxes is exhausted.
C6_GridInv ==
    Accepted =>
        LET C == Ceil(im[1], partSize[1] - overlapSize[1])
            R == Ceil(im[2], partSize[2] - overlapSize[2])
        IN /\ IsPrefix(Indices, RowMajor(R, C))
           /\ GetBoxesCompleted => Indices = RowMajor(R, C)

\* C6: an accepted call of get_boxes terminates, and its (row, col) indices
\* are exactly the row-major enumeration of the complete R x C grid.
C6_RowMajorGrid ==
    /\ [](C6_GridInv)
    /\ (pc = "get_boxes") ~> (pc = "summary" \/ pc = "raised")

\* C6 witness: a grid of at least two rows and two columns was completed.
C6_Witness ==
    /\ pc = "summary"
    /\ Len(boxes) >= 4
    /\ boxes[Len(boxes)].row >= 1 /\ boxes[Len(boxes)].col >= 1

\* C7: two boxes emitted consecutively in one row, the first not trimmed in
\* width, overlap by exactly overlapWidth; with overlap (0,0) every such
\* pair shares the edge right == next.left.
C7_RowOverlap ==
    \A k \in 1..(Len(boxes) - 1) :
        boxes[k].row = boxes[k + 1].row =>
            /\ ~trims[k][1] => boxes[k].box[3] - boxes[k + 1].box[1] = overlapSize[1]
            /\ overlapSize = <<0, 0>> => boxes[k].box[3] = boxes[k + 1].box[1]

\* C7 witness: an untrimmed box followed in its row by another, overlap > 0.
C7_Witness ==
    /\ overlapSize[1] > 0
    /\ \E k \in 1..(Len(boxes) - 1) : boxes[k].row = boxes[k + 1].row /\ ~trims[k][1]

\* C8: a valid configuration whose tile size equals the image size makes
\* get_boxes emit exactly the one box (0, 0, imageWidth, imageHeight) at
\* row 0, col 0.
C8_SingleTile ==
    (/\ GetBoxesRan
     /\ ~Truthy(overhang)
     /\ partSize = im
     /\ overlapSize[1] < partSize[1] /\ overlapSize[2] < partSize[2])
    => /\ ~GetBoxesFailed
       /\ Len(boxes) <= 1
       /\ GetBoxesCompleted =>
             boxes = <<[box |-> <<0, 0, im[1], im[2]>>, row |-> 0, col |-> 0]>>

\* C9: for an accepted call the emitted sequence is always a prefix of the
\* reference generator's sequence (nominal right/lower kept, box clipped on
\* a copy), and equals it once get_boxes is exhausted.
C9_TrimDoesNotPerturb ==
    Accepted =>
        /\ IsPrefix(boxes, Reference(im, partSize, overlapSize))
        /\ GetBoxesCompleted => boxes = Reference(im, partSize, overlapSize)

\* C9 witness: a box was trimmed in width and in height and boxes of later
\* columns and rows followed it.
C9_Witness ==
    /\ pc = "summary"
    /\ \E k \in 1..Len(boxes) :
          /\ trims[k][1]
          /\ \E j \in (k + 1)..Len(boxes) : boxes[j].row > boxes[k].row /\ trims[j][2]
    /\ \E k \in 1..(Len(boxes) - 1) : trims[k][1] /\ boxes[k + 1].row = boxes[k].row

\* C10: a source that is not a decoded image and cannot be decoded makes
\* get_partitions end normally with nothing yielded and no error raised,
\* with or without a logger.
C10_UndecodableSourceIsEmpty ==
    (source = "locator" /\ srcSize = None /\ pc \in {"done", "raised"})
    => pc = "done" /\ error = "none" /\ boxes = <<>>
====
